---------------------------- MODULE Spec2Model ----------------------------
(***************************************************************************)
(* Model of build_elevation/main.py: the orchestrator `main`, the grid     *)
(* builder `create_grid_from_bounds` and the tile fetcher `download_tile`. *)
(*                                                                         *)
(* Coordinates of polygon vertices are kept in HALF DEGREES (the integer h *)
(* stands for h/2 degrees), so that 2.5 degrees is the integer 5.  Grid    *)
(* boxes and tile coordinates are whole degrees, as in the code.           *)
(* Strings are sequences of one-character strings, so that the '%02d' and  *)
(* '%03d' conversions are computed digit by digit.                         *)
(***************************************************************************)
EXTENDS Integers, Sequences, FiniteSets, TLC

VARIABLES
    pc,             \* position of main: start, files, cells, done, crashed; or name, named
    run,            \* number of the current invocation of the tool
    input_kind,     \* what input_geojson_dir is: "dir", "file" or "missing"
    listing,        \* the entries input_geojson_dir.iterdir() yields, in order
    fileIdx,        \* index of the entry the for loop of line 78 is at
    poly,           \* main's local poly: the vertices of the current polygon
    rounded_bounds, \* main's local rounded_bounds = <<xmin, ymin, xmax, ymax>>
    grid_polys,     \* main's local grid_polys
    cellIdx,        \* index of the grid_poly the for loop of line 89 is at
    expected,       \* main's local expected
    total,          \* main's local total
    dirs,           \* directories that exist below (and including) output_dir
    disk,           \* tile files on disk: path -> content
    dl,             \* locals of the latest download_tile call
    calls,          \* history of download_tile calls (all runs)
    started,        \* rounded bounds of the polygons started in this run
    log,            \* kinds of LOGGER records emitted in this run
    faults          \* number of failures the environment has injected so far

vars == <<pc, run, input_kind, listing, fileIdx, poly, rounded_bounds, grid_polys,
          cellIdx, expected, total, dirs, disk, dl, calls, started, log, faults>>

\* ------------------------------------------------------------------ bounds
MaxFiles  == 2      \* entries in the input directory
MaxRuns   == 2      \* invocations of the tool on the same output directory
MaxFaults == 2      \* failures injected over all runs

\* ----------------------------------------------------------------- helpers
Abs(n) == IF n < 0 THEN -n ELSE n

Min2(a, b) == IF a <= b THEN a ELSE b

Max2(a, b) == IF a >= b THEN a ELSE b

SetMin(S) == CHOOSE m \in S : \A n \in S : m <= n

SetMax(S) == CHOOSE m \in S : \A n \in S : m >= n

\* ------------------------------------------------- '%0Nd' string formatting
DigitChars == <<"0", "1", "2", "3", "4", "5", "6", "7", "8", "9">>

RECURSIVE Digits(_)
\* decimal digits of a natural number, most significant first
Digits(n) == IF n < 10 THEN <<DigitChars[n + 1]>>
             ELSE Digits(n \div 10) \o <<DigitChars[(n % 10) + 1]>>

RECURSIVE ZeroPad(_, _)
ZeroPad(s, width) == IF Len(s) >= width THEN s ELSE ZeroPad(<<"0">> \o s, width)

\* Python's '%0<width>d' % n: at least `width` characters, sign first
Format_0d(n, width) ==
    IF n < 0 THEN <<"-">> \o ZeroPad(Digits(-n), width - 1)
    ELSE ZeroPad(Digits(n), width)

\* ------------------------------------------------------ download_tile names
tile_name_lonW(x, y) ==
    <<IF y < 0 THEN "S" ELSE "N">> \o Format_0d(Abs(y), 2)
      \o <<IF x <= 0 THEN "W" ELSE "E">> \o Format_0d(Abs(x), 3)
      \o <<".", "h", "g", "t">>

tile_name_noSign(x, y) ==
    <<IF y < 0 THEN "S" ELSE "N">> \o Format_0d(Abs(y), 2)
      \o <<"E">> \o Format_0d(Abs(x), 3)
      \o <<".", "h", "g", "t">>

\* line 45
tile_name(x, y) ==
    <<IF y < 0 THEN "S" ELSE "N">> \o Format_0d(Abs(y), 2)
      \o <<IF x < 0 THEN "W" ELSE "E">> \o Format_0d(Abs(x), 3)
      \o <<".", "h", "g", "t">>

\* line 46
dir_name(x, y) == <<IF y < 0 THEN "S" ELSE "N">> \o Format_0d(Abs(y), 2)

\* the fixed base location of line 47, kept as one token
UrlBase == <<"http://s3.amazonaws.com/elevation-tiles-prod">>

\* line 47 (the literal parts "/skadi/", "/" and ".gz" are one token each)
url(x, y) ==
    UrlBase \o <<"/skadi/">> \o dir_name(x, y)
            \o <<"/">> \o tile_name(x, y) \o <<".gz">>

\* line 48: Path(directory, dir_name); output_dir itself is the empty path
output_dir == <<>>

dest_directory(x, y) == output_dir \o <<dir_name(x, y)>>

\* line 50: Path(dest_directory, tile_name)
filepath(x, y) == dest_directory(x, y) \o <<tile_name(x, y)>>

\* the locals of one download_tile call (lines 44-50)
Locals(sw) ==
    [sw |-> sw,
     tile_name |-> tile_name(sw[1], sw[2]),
     dir_name |-> dir_name(sw[1], sw[2]),
     url |-> url(sw[1], sw[2]),
     filepath |-> filepath(sw[1], sw[2])]

NoLocals == [sw |-> <<>>, tile_name |-> <<>>, dir_name |-> <<>>, url |-> <<>>,
             filepath |-> <<>>]

\* ------------------------------------------------------- planar geometry
\* (shapely's predicates, computed exactly on integer coordinates)

\* twice the signed area of the triangle a, b, c
Orient(a, b, c) == (b[1] - a[1]) * (c[2] - a[2]) - (b[2] - a[2]) * (c[1] - a[1])

\* p lies on the closed segment a-b
OnSegment(a, b, p) ==
    /\ Orient(a, b, p) = 0
    /\ Min2(a[1], b[1]) <= p[1] /\ p[1] <= Max2(a[1], b[1])
    /\ Min2(a[2], b[2]) <= p[2] /\ p[2] <= Max2(a[2], b[2])

\* the closed segments a-b and c-d share a point
SegmentsIntersect(a, b, c, d) ==
    LET o1 == Orient(a, b, c)
        o2 == Orient(a, b, d)
        o3 == Orient(c, d, a)
        o4 == Orient(c, d, b)
    IN  \/ /\ (o1 > 0 /\ o2 < 0) \/ (o1 < 0 /\ o2 > 0)
           /\ (o3 > 0 /\ o4 < 0) \/ (o3 < 0 /\ o4 > 0)
        \/ OnSegment(a, b, c) \/ OnSegment(a, b, d)
        \/ OnSegment(c, d, a) \/ OnSegment(c, d, b)

\* the edges of a ring of vertices, closing edge included
Edges(ring) ==
    {<<ring[i], ring[(i % Len(ring)) + 1]>> : i \in 1 .. Len(ring)}

OnBoundary(p, ring) == \E e \in Edges(ring) : OnSegment(e[1], e[2], p)

\* edge i of the ring crosses the horizontal ray from p towards +x
RayCrosses(p, ring, i) ==
    LET a == ring[i]
        b == ring[(i % Len(ring)) + 1]
    IN  /\ (a[2] > p[2]) # (b[2] > p[2])
        /\ IF b[2] > a[2]
           THEN (p[1] - a[1]) * (b[2] - a[2]) < (p[2] - a[2]) * (b[1] - a[1])
           ELSE (p[1] - a[1]) * (b[2] - a[2]) > (p[2] - a[2]) * (b[1] - a[1])

\* p lies strictly inside the ring (even-odd rule)
StrictlyInside(p, ring) ==
    /\ ~OnBoundary(p, ring)
    /\ Cardinality({i \in 1 .. Len(ring) : RayCrosses(p, ring, i)}) % 2 = 1

\* p lies in the closed region of the ring
InClosedRegion(p, ring) == OnBoundary(p, ring) \/ StrictlyInside(p, ring)

\* line 36: shapely.geometry.box(minx, miny, maxx, maxy), in degrees
box(minx, miny, maxx, maxy) ==
    [minx |-> minx, miny |-> miny, maxx |-> maxx, maxy |-> maxy]

\* the ring of a box in half degrees, the unit of the polygons' vertices
BoxRing(b) ==
    <<<<2 * b.minx, 2 * b.miny>>, <<2 * b.maxx, 2 * b.miny>>,
      <<2 * b.maxx, 2 * b.maxy>>, <<2 * b.minx, 2 * b.maxy>>>>

\* line 90: poly.intersects(grid_poly): the closed regions share a point
Intersects(ring, b) ==
    LET r == BoxRing(b)
    IN  \/ \E i \in 1 .. Len(ring) : InClosedRegion(ring[i], r)
        \/ \E i \in 1 .. Len(r) : InClosedRegion(r[i], ring)
        \/ \E e \in Edges(ring) : \E f \in Edges(r) :
               SegmentsIntersect(e[1], e[2], f[1], f[2])

\* line 85: poly.bounds = (minx, miny, maxx, maxy), in half degrees
PolyBounds(ring) ==
    LET xs == {ring[i][1] : i \in 1 .. Len(ring)}
        ys == {ring[i][2] : i \in 1 .. Len(ring)}
    IN  <<SetMin(xs), SetMin(ys), SetMax(xs), SetMax(ys)>>

\* line 91: grid_poly.bounds[0:2], in degrees
SouthWest(b) == <<b.minx, b.miny>>

\* ---------------------------------------------------------- rounding, grid
\* math.floor and math.ceil of h/2 degrees
math_floor(h) == h \div 2

math_ceil(h) == -((-h) \div 2)

RoundBounds_floorOnly(b) ==
    <<math_floor(b[1]), math_floor(b[2]), math_floor(b[3]), math_floor(b[4])>>

\* line 86: floor the first two bounds, ceil the last two
RoundBounds(b) ==
    <<math_floor(b[1]), math_floor(b[2]), math_ceil(b[3]), math_ceil(b[4])>>

expected_increment_plusOne(b) == (b[3] - b[1] + 1) * (b[4] - b[2] + 1)

\* line 87
expected_increment(b) == (b[3] - b[1]) * (b[4] - b[2])

RECURSIVE ColumnBoxes(_, _, _)
\* the inner loop of line 35 for one x: y = ylo, ..., yhi - 1
ColumnBoxes(x, ylo, yhi) ==
    IF ylo >= yhi THEN <<>>
    ELSE <<box(x, ylo, x + 1, ylo + 1)>> \o ColumnBoxes(x, ylo + 1, yhi)

RECURSIVE GridBoxes(_, _, _, _)
\* the loops of lines 34-37: x outer, y inner, upper ends excluded
GridBoxes(xlo, xhi, ylo, yhi) ==
    IF xlo >= xhi THEN <<>>
    ELSE ColumnBoxes(xlo, ylo, yhi) \o GridBoxes(xlo + 1, xhi, ylo, yhi)

create_grid_inclusive(bounds) ==
    GridBoxes(bounds[1], bounds[3] + 1, bounds[2], bounds[4] + 1)

\* lines 30-39
create_grid_from_bounds(bounds) ==
    GridBoxes(bounds[1], bounds[3], bounds[2], bounds[4])

\* ------------------------------------------------------------ download_tile
\* the decompressed payload the archive serves at address u: two blocks of
\* bytes.  A file holds the first `blocks` blocks of the payload `of`.
Payload(u) == [of |-> u, blocks |-> 2]

Truncated(c, n) == [of |-> IF n = 0 THEN <<>> ELSE c.of, blocks |-> n]

\* Path.is_file
is_file(path, files) == path \in DOMAIN files

AlwaysFetch(path, files) == TRUE

\* line 51: the else branch (line 58) is the cache hit
NeedsFetch(path, files) == ~is_file(path, files)

\* what the environment can make of one fetch
FetchOutcomes == {"ok", "urlopen_error", "gzip_error", "write_error"}

\* lines 51-56: the file at path after a fetch with the given outcome.
\* urlopen (line 53) comes first; open(filepath, 'wb') (line 55) creates or
\* truncates the file before gz.read() (line 56) runs; f.write may stop early.
FileAfterFetch(path, files, u, outcome) ==
    CASE outcome = "ok"            -> (path :> Payload(u)) @@ files
      [] outcome = "urlopen_error" -> files
      [] outcome = "gzip_error"    -> (path :> Truncated(Payload(u), 0)) @@ files
      [] outcome = "write_error"   -> (path :> Truncated(Payload(u), 1)) @@ files

\* lines 42-58: the effect of download_tile(sw, output_dir) on the file system,
\* the number of network requests it makes and whether it raises
download_tile(sw, ds, files, outcome) ==
    LET l == Locals(sw)
        ds2 == ds \cup {dest_directory(sw[1], sw[2])}    \* line 49
    IN  IF NeedsFetch(l.filepath, files)
        THEN [dirs |-> ds2,
              disk |-> FileAfterFetch(l.filepath, files, l.url, outcome),
              net |-> 1,
              result |-> outcome,
              raised |-> outcome # "ok"]
        ELSE [dirs |-> ds2,
              disk |-> files,
              net |-> 0,
              result |-> "cached",
              raised |-> FALSE]

\* ------------------------------------------------------------------ inputs
\* polygons, as rings of vertices in half degrees
Square  == <<<<5, 5>>, <<5, 9>>, <<9, 9>>, <<9, 5>>>>      \* (2.5,2.5)-(4.5,4.5)

Cross   == <<<<-1, -2>>, <<-1, -1>>, <<1, -1>>, <<1, -2>>>>  \* (-0.5,-1)-(0.5,-0.5)

Flat    == <<<<2, 0>>, <<2, 4>>, <<2, 2>>>>                \* zero area, on x = 1

\* concave, arms half a degree wide, bounding box (0,0)-(2,2) on whole degrees
Ell     == <<<<0, 0>>, <<4, 0>>, <<4, 1>>, <<1, 1>>, <<1, 4>>, <<0, 4>>>>

\* a directory entry: its suffix and, for a GeoJSON file, its "features"
Entry(suffix, features) == [suffix |-> suffix, features |-> features]

\* the entries the directories are made of: two single-feature files, a file
\* with two features, a file without features and a file that is no GeoJSON
Entries ==
    {Entry(".geojson", <<Cross>>), Entry(".geojson", <<Ell>>),
     Entry(".geojson", <<Flat, Cross>>), Entry(".geojson", <<>>),
     Entry(".txt", <<>>)}

\* the directories: every listing of at most MaxFiles entries, and the
\* directory that holds the square of 2 x 2 degrees alone
Listings ==
    UNION {[1 .. n -> Entries] : n \in 0 .. MaxFiles}
        \cup {<<Entry(".geojson", <<Square>>)>>}

iterdir_lenient(kind, entries) ==
    [raised |-> FALSE, items |-> IF kind = "dir" THEN entries ELSE <<>>]

\* line 78: input_geojson_dir.resolve().iterdir() raises FileNotFoundError or
\* NotADirectoryError unless the path is a directory
iterdir(kind, entries) ==
    IF kind = "dir" THEN [raised |-> FALSE, items |-> entries]
    ELSE [raised |-> TRUE, items |-> <<>>]

\* lines 23-27: the first feature; a warning unless there is exactly one;
\* geojson[0] raises IndexError on an empty list
geojson_feature_to_poly(features) ==
    [warned |-> Len(features) # 1,
     raised |-> Len(features) = 0,
     poly |-> IF Len(features) = 0 THEN <<>> ELSE features[1]]

swallow_error(r) == [pc |-> "cells", counted |-> IF r.raised THEN 0 ELSE 1]

\* lines 92-93: an exception of download_tile leaves main (nothing catches
\* it); otherwise total += 1 and the loop goes on
after_download(r) ==
    IF r.raised THEN [pc |-> "crashed", counted |-> 0]
    ELSE [pc |-> "cells", counted |-> 1]

\* what is at `path`, relative to the payload the archive serves at u
FileState(path, files, u) ==
    IF ~is_file(path, files) THEN "absent"
    ELSE IF files[path] = Payload(u) THEN "complete"
    ELSE IF files[path].blocks = 0 THEN "empty"
    ELSE IF files[path].of = u THEN "partial"
    ELSE "foreign"

\* --------------------------------------------------------------------- Init
NoBounds == <<0, 0, 0, 0>>

Init ==
    /\ pc = "start"
    /\ run = 1
    /\ input_kind \in {"dir", "file", "missing"}
    /\ listing \in (IF input_kind = "dir" THEN Listings ELSE {<<>>})
    /\ fileIdx = 0
    /\ poly = <<>>
    /\ rounded_bounds = NoBounds
    /\ grid_polys = <<>>
    /\ cellIdx = 0
    /\ expected = 0
    /\ total = 0
    /\ dirs = {}
    /\ disk = <<>>
    /\ dl = NoLocals
    /\ calls = <<>>
    /\ started = <<>>
    /\ log = {}
    /\ faults = 0

\* ------------------------------------------------------------------ actions
\* lines 70-78: the directory check, output_dir.mkdir, the counters, iterdir
Main_Enter ==
    /\ pc = "start"
    /\ log' = log \cup (IF input_kind # "dir" THEN {"critical"} ELSE {})
    /\ dirs' = dirs \cup {output_dir}
    /\ expected' = 0
    /\ total' = 0
    /\ IF iterdir(input_kind, listing).raised
       THEN pc' = "crashed" /\ fileIdx' = fileIdx
       ELSE pc' = "files" /\ fileIdx' = 1
    /\ UNCHANGED <<run, input_kind, listing, poly, rounded_bounds, grid_polys,
                   cellIdx, disk, dl, calls, started, faults>>

\* lines 79-80: an entry without the .geojson suffix is skipped
SkipFile ==
    /\ pc = "files"
    /\ fileIdx <= Len(iterdir(input_kind, listing).items)
    /\ iterdir(input_kind, listing).items[fileIdx].suffix # ".geojson"
    /\ fileIdx' = fileIdx + 1
    /\ UNCHANGED <<pc, run, input_kind, listing, poly, rounded_bounds, grid_polys,
                   cellIdx, expected, total, dirs, disk, dl, calls, started, log,
                   faults>>

\* lines 81-88: load the polygon, round its bounds, count, build the grid
LoadFile ==
    /\ pc = "files"
    /\ fileIdx <= Len(iterdir(input_kind, listing).items)
    /\ iterdir(input_kind, listing).items[fileIdx].suffix = ".geojson"
    /\ \E g \in {geojson_feature_to_poly(
                    iterdir(input_kind, listing).items[fileIdx].features)} :
        \E rb \in {IF g.raised THEN NoBounds ELSE RoundBounds(PolyBounds(g.poly))} :
           /\ log' = log \cup (IF g.warned THEN {"warning"} ELSE {})
           /\ IF g.raised
              THEN /\ pc' = "crashed"
                   /\ UNCHANGED <<poly, rounded_bounds, grid_polys, cellIdx,
                                  expected, started>>
              ELSE /\ pc' = "cells"
                   /\ poly' = g.poly
                   /\ rounded_bounds' = rb
                   /\ expected' = expected + expected_increment(rb)
                   /\ grid_polys' = create_grid_from_bounds(rb)
                   /\ cellIdx' = 1
                   /\ started' = Append(started,
                          [file |-> fileIdx, bounds |-> rb])
    /\ UNCHANGED <<run, input_kind, listing, fileIdx, total, dirs, disk, dl,
                   calls, faults>>

\* lines 89-90: a grid cell the polygon does not intersect is passed over
SkipCell ==
    /\ pc = "cells"
    /\ cellIdx <= Len(grid_polys)
    /\ Intersects(poly, grid_polys[cellIdx]) = FALSE
    /\ cellIdx' = cellIdx + 1
    /\ UNCHANGED <<pc, run, input_kind, listing, fileIdx, poly, rounded_bounds,
                   grid_polys, expected, total, dirs, disk, dl, calls, started,
                   log, faults>>

\* lines 89-93: an intersecting cell: download_tile(sw, output_dir), total += 1
DownloadCell ==
    /\ pc = "cells"
    /\ cellIdx <= Len(grid_polys)
    /\ Intersects(poly, grid_polys[cellIdx]) = TRUE
    /\ \E outcome \in FetchOutcomes :
         \E sw \in {SouthWest(grid_polys[cellIdx])} :
         \E l \in {Locals(sw)} :
         \E r \in {download_tile(sw, dirs, disk, outcome)} :
         \E a \in {after_download(r)} :
             /\ outcome = "ok" \/ (r.net > 0 /\ faults < MaxFaults)
             /\ dirs' = r.dirs
             /\ disk' = r.disk
             /\ dl' = l
             /\ calls' = Append(calls,
                    [run |-> run, file |-> fileIdx, sw |-> sw,
                     pre |-> FileState(l.filepath, disk, l.url),
                     post |-> FileState(l.filepath, r.disk, l.url),
                     net |-> r.net, result |-> r.result, raised |-> r.raised])
             /\ faults' = faults + (IF r.raised THEN 1 ELSE 0)
             /\ total' = total + a.counted
             /\ pc' = a.pc
             /\ cellIdx' = IF a.pc = "cells" THEN cellIdx + 1 ELSE cellIdx
    /\ UNCHANGED <<run, input_kind, listing, fileIdx, poly, rounded_bounds,
                   grid_polys, expected, started, log>>

\* line 89: the grid of this polygon is exhausted, on to the next entry
EndCells ==
    /\ pc = "cells"
    /\ cellIdx > Len(grid_polys)
    /\ pc' = "files"
    /\ fileIdx' = fileIdx + 1
    /\ UNCHANGED <<run, input_kind, listing, poly, rounded_bounds, grid_polys,
                   cellIdx, expected, total, dirs, disk, dl, calls, started, log,
                   faults>>

\* lines 95-97: the entries are exhausted: the summary is logged, main returns
Finish ==
    /\ pc = "files"
    /\ fileIdx > Len(iterdir(input_kind, listing).items)
    /\ log' = log \cup {"summary"}
    /\ pc' = "done"
    /\ UNCHANGED <<run, input_kind, listing, fileIdx, poly, rounded_bounds,
                   grid_polys, cellIdx, expected, total, dirs, disk, dl, calls,
                   started, faults>>

\* lines 61-65: the tool is invoked again on the same directories; what is on
\* disk stays, the process state is new
Rerun ==
    /\ pc \in {"done", "crashed"}
    /\ run < MaxRuns
    /\ run' = run + 1
    /\ pc' = "start"
    /\ fileIdx' = 0
    /\ poly' = <<>>
    /\ rounded_bounds' = NoBounds
    /\ grid_polys' = <<>>
    /\ cellIdx' = 0
    /\ expected' = 0
    /\ total' = 0
    /\ dl' = NoLocals
    /\ started' = <<>>
    /\ log' = {}
    /\ UNCHANGED <<input_kind, listing, dirs, disk, calls, faults>>

Next ==
    \/ Main_Enter
    \/ SkipFile
    \/ LoadFile
    \/ SkipCell
    \/ DownloadCell
    \/ EndCells
    \/ Finish
    \/ Rerun

Spec == Init /\ [][Next]_vars

\* ------------------------------------------- the naming functions on their own
\* the coordinate domain of the tiles: whole degrees of longitude and latitude
Lon == -180 .. 179

Lat == -90 .. 89

InitName ==
    /\ pc = "name"
    /\ run = 1
    /\ input_kind = "dir"
    /\ listing = <<>>
    /\ fileIdx = 0
    /\ poly = <<>>
    /\ rounded_bounds = NoBounds
    /\ grid_polys = <<>>
    /\ cellIdx = 0
    /\ expected = 0
    /\ total = 0
    /\ dirs = {}
    /\ disk = <<>>
    /\ dl \in {[NoLocals EXCEPT !.sw = <<x, y>>] : x \in Lon, y \in Lat}
    /\ calls = <<>>
    /\ started = <<>>
    /\ log = {}
    /\ faults = 0

\* lines 44-50 applied to the coordinate dl.sw
NameTile ==
    /\ pc = "name"
    /\ dl' = Locals(dl.sw)
    /\ pc' = "named"
    /\ UNCHANGED <<run, input_kind, listing, fileIdx, poly, rounded_bounds,
                   grid_polys, cellIdx, expected, total, dirs, disk, calls,
                   started, log, faults>>

NextName == NameTile

SpecName == InitName /\ [][NextName]_vars

\* ============================================================== properties
\* the calls of download_tile made for entry f in the current run, in order
RECURSIVE CallsOfFrom(_, _)
CallsOfFrom(f, i) ==
    IF i > Len(calls) THEN <<>>
    ELSE (IF calls[i].run = run /\ calls[i].file = f THEN <<calls[i].sw>> ELSE <<>>)
             \o CallsOfFrom(f, i + 1)

CallsOf(f) == CallsOfFrom(f, 1)

SeqRange(q) == {q[i] : i \in 1 .. Len(q)}

NoRepeat(q) == \A i, j \in 1 .. Len(q) : i # j => q[i] # q[j]

\* the calls of the current run
RunCalls == {i \in 1 .. Len(calls) : calls[i].run = run}

\* the polygon main takes from entry f
PolygonOf(f) == listing[f].features[1]

\* ---------------------------------------------------------------------- C1
\* C1: a call of download_tile made while the file exists makes no network
\* request, returns normally and leaves the file as it was; and when a call
\* that found no file fetched it successfully, that call made exactly one
\* request and the next call for the same coordinate makes none, succeeds
\* and finds and leaves the complete file.
C1_Idempotent ==
    /\ \A i \in 1 .. Len(calls) :
          calls[i].pre # "absent" =>
              /\ calls[i].net = 0
              /\ ~calls[i].raised
              /\ calls[i].post = calls[i].pre
    /\ \A i, j \in 1 .. Len(calls) :
          (/\ i < j
           /\ calls[i].sw = calls[j].sw
           /\ \A k \in (i + 1) .. (j - 1) : calls[k].sw # calls[i].sw
           /\ calls[i].pre = "absent"
           /\ calls[i].result = "ok") =>
              /\ calls[i].net = 1
              /\ calls[j].net = 0
              /\ ~calls[j].raised
              /\ calls[j].pre = "complete"
              /\ calls[j].post = "complete"

C1_Witness ==
    \E i, j \in 1 .. Len(calls) :
        /\ i < j
        /\ calls[i].sw = calls[j].sw
        /\ calls[i].pre = "absent"
        /\ calls[i].result = "ok"
        /\ calls[j].result = "cached"

\* ---------------------------------------------------------------------- C2
DigitOf(d) == DigitChars[d + 1]

\* the name the claim describes, digit by digit
C2_Name(x, y) ==
    <<IF y < 0 THEN "S" ELSE "N",
      DigitOf(Abs(y) \div 10), DigitOf(Abs(y) % 10),
      IF x < 0 THEN "W" ELSE "E",
      DigitOf(Abs(x) \div 100), DigitOf((Abs(x) \div 10) % 10), DigitOf(Abs(x) % 10),
      ".", "h", "g", "t">>

\* C2: for every coordinate of the domain the tile name is hemisphere letter,
\* two-digit latitude, hemisphere letter, three-digit longitude and ".hgt";
\* the directory name is its first three characters; the address is
\* base + "/skadi/" + directory + "/" + name + ".gz".
C2_Naming ==
    pc = "named" =>
        /\ dl.tile_name = C2_Name(dl.sw[1], dl.sw[2])
        /\ dl.dir_name = SubSeq(dl.tile_name, 1, 3)
        /\ dl.url = <<"http://s3.amazonaws.com/elevation-tiles-prod", "/skadi/">>
                        \o dl.dir_name \o <<"/">> \o dl.tile_name \o <<".gz">>
        /\ dl.sw = <<-122, 37>> =>
              /\ dl.tile_name = <<"N", "3", "7", "W", "1", "2", "2", ".", "h", "g", "t">>
              /\ dl.dir_name = <<"N", "3", "7">>
        /\ dl.sw = <<5, -10>> =>
              dl.tile_name = <<"S", "1", "0", "E", "0", "0", "5", ".", "h", "g", "t">>

C2_Witness ==
    /\ pc = "named"
    /\ dl.sw = <<-122, 37>>
    /\ dl.dir_name = <<"N", "3", "7">>

\* ---------------------------------------------------------------------- C6
DigitValue(c) == CHOOSE d \in 0 .. 9 : DigitChars[d + 1] = c

\* parse a tile name: letters give the signs, digit groups the magnitudes
ParseTileName(name) ==
    <<(IF name[4] = "W" THEN -1 ELSE 1)
          * (100 * DigitValue(name[5]) + 10 * DigitValue(name[6]) + DigitValue(name[7])),
      (IF name[1] = "S" THEN -1 ELSE 1)
          * (10 * DigitValue(name[2]) + DigitValue(name[3]))>>

\* C6: parsing the tile name (and the last component of the local path)
\* recovers the coordinate, for every coordinate of the domain; so distinct
\* coordinates have distinct names and paths.
C6_RoundTrip ==
    pc = "named" =>
        /\ Len(dl.tile_name) = 11
        /\ ParseTileName(dl.tile_name) = dl.sw
        /\ ParseTileName(dl.filepath[Len(dl.filepath)]) = dl.sw

C6_Witness ==
    /\ pc = "named"
    /\ dl.sw = <<-180, -90>>
    /\ ParseTileName(dl.tile_name) = <<-180, -90>>

\* ---------------------------------------------------------------------- C3
\* the cells of the rounded box b whose closed unit square meets the ring
WantedCells(ring, b) ==
    {c \in (b[1] .. (b[3] - 1)) \X (b[2] .. (b[4] - 1)) :
        Intersects(ring, box(c[1], c[2], c[1] + 1, c[2] + 1))}

WantedOf(ring) == {c : c \in WantedCells(ring, RoundBounds(PolyBounds(ring)))}

\* the wanted cells of each of them
WantedTable ==
    (Square :> WantedOf(Square)) @@ (Cross :> WantedOf(Cross))
        @@ (Ell :> WantedOf(Ell)) @@ (Flat :> WantedOf(Flat))

\* the cells of the polygons, worked out by hand
CellsByHand(ring) ==
    CASE ring = Square -> (2 .. 4) \X (2 .. 4)
      [] ring = Ell    -> {<<0, 0>>, <<0, 1>>, <<1, 0>>}
      [] ring = Cross  -> {<<-1, -1>>, <<0, -1>>}
      [] ring = Flat   -> {}

\* C3: for each polygon of the run, download_tile is called only for cells of
\* the rounded bounding box that meet the polygon, for none of them twice,
\* and, once the polygon's grid is exhausted, for every one of them; with an
\* empty box no call is made; the square of scenario 1 gets {2,3,4} x {2,3,4}.
C3_GridCalls ==
    \A n \in 1 .. Len(started) :
        \E f \in {started[n].file} :
        \E ring \in {PolygonOf(f)} :
        \E b \in {RoundBounds(PolyBounds(ring))} :
        \E called \in {CallsOf(f)} :
        \E wanted \in {WantedTable[ring]} :
            /\ SeqRange(called) \subseteq wanted
            /\ SeqRange(called) \subseteq CellsByHand(ring)
            /\ NoRepeat(called)
            /\ (b[3] = b[1] \/ b[4] = b[2]) => called = <<>>
            /\ f < fileIdx =>
                  /\ SeqRange(called) = wanted
                  /\ SeqRange(called) = CellsByHand(ring)

C3_Witness ==
    /\ pc = "done"
    /\ Len(started) = 1
    /\ PolygonOf(started[1].file) = Square
    /\ SeqRange(CallsOf(started[1].file)) = (2 .. 4) \X (2 .. 4)
    /\ Len(CallsOf(started[1].file)) = 9

\* ---------------------------------------------------------------------- C4
\* C4: a download_tile call that fails ends the run at once: main is left by
\* the exception, the call made one request and is the last of its run, the
\* failing tile is not counted in total, and no summary is logged.
C4_FetchErrorPropagates ==
    /\ \A i \in 1 .. Len(calls) :
          calls[i].raised =>
              /\ calls[i].net = 1
              /\ calls[i].run = run => (pc = "crashed" /\ i = Len(calls))
              /\ i < Len(calls) => calls[i + 1].run > calls[i].run
    /\ total = Cardinality({i \in RunCalls : ~calls[i].raised})
    /\ (\E i \in RunCalls : calls[i].raised) => "summary" \notin log

C4_Witness ==
    /\ pc = "crashed"
    /\ Len(calls) >= 2
    /\ calls[Len(calls)].raised
    /\ calls[Len(calls)].run = run
    /\ total = Len(calls) - 1

\* ---------------------------------------------------------------------- C5
\* C5: when the input path is no directory, the critical record is logged and
\* the run ends in the exception of iterdir: no download_tile call, no
\* request, no tile file, no summary.
C5_ConfigErrorAborts ==
    (input_kind # "dir" /\ pc # "start") =>
        /\ "critical" \in log
        /\ pc = "crashed"
        /\ calls = <<>>
        /\ dl = NoLocals
        /\ disk = <<>>
        /\ "summary" \notin log

C5_Witness ==
    /\ input_kind = "missing"
    /\ pc = "crashed"
    /\ run = 2
    /\ "critical" \in log

\* ---------------------------------------------------------------------- C7
\* the points of the quarter-degree lattice within the box b (whole degrees)
QuarterPoints(b) ==
    ((4 * b[1] - 1) .. (4 * b[3] + 1)) \X ((4 * b[2] - 1) .. (4 * b[4] + 1))

\* a ring given in half degrees, in quarter degrees
InQuarters(ring) == [i \in 1 .. Len(ring) |-> <<2 * ring[i][1], 2 * ring[i][2]>>]

\* the point q (quarter degrees) lies in the closed unit square of the box g
InCell(q, g) ==
    /\ 4 * g.minx <= q[1] /\ q[1] <= 4 * g.maxx
    /\ 4 * g.miny <= q[2] /\ q[2] <= 4 * g.maxy

\* the lattice points strictly inside each polygon, looked for in its
\* bounding box widened to whole degrees and by a quarter degree
InsideOf(ring) ==
    LET pb == PolyBounds(ring)
        hull == <<pb[1] \div 2, pb[2] \div 2, -((-pb[3]) \div 2), -((-pb[4]) \div 2)>>
        rq == InQuarters(ring)
    IN  {p : p \in {q \in QuarterPoints(hull) : StrictlyInside(q, rq)}}

InsideTable ==
    (Square :> InsideOf(Square)) @@ (Cross :> InsideOf(Cross))
        @@ (Ell :> InsideOf(Ell)) @@ (Flat :> InsideOf(Flat))

\* C7: when a polygon's grid has been built, every lattice point strictly
\* inside the polygon lies in the closed square of some cell of the grid;
\* and when the polygon's bounds are whole degrees, the rounded bounds are
\* those bounds.
C7_GridCoverage ==
    (pc = "cells" /\ cellIdx = 1) =>
        \E pb \in {PolyBounds(poly)} :
            /\ \A q \in InsideTable[poly] :
                  \E i \in 1 .. Len(grid_polys) : InCell(q, grid_polys[i])
            /\ (\A k \in 1 .. 4 : pb[k] % 2 = 0) =>
                  rounded_bounds = <<pb[1] \div 2, pb[2] \div 2, pb[3] \div 2, pb[4] \div 2>>

C7_Witness ==
    /\ pc = "cells"
    /\ cellIdx = 1
    /\ poly = Cross
    /\ rounded_bounds = <<-1, -1, 1, 0>>
    /\ Len(grid_polys) = 2

\* ---------------------------------------------------------------------- C8
\* C8: a failed download_tile call leaves no file at the tile's path, and a
\* file taken as a cache hit holds the complete payload of its tile.
C8_NoPartialFile ==
    \A i \in 1 .. Len(calls) :
        /\ calls[i].raised => calls[i].post = "absent"
        /\ calls[i].result = "cached" => calls[i].pre = "complete"

\* ---------------------------------------------------------------------- C9
\* C9: in every step, a file that exists stays and keeps its content and a
\* directory that exists stays; a step that is a download_tile call for c
\* creates at most c's file and c's directory, and only such a step creates
\* a file.
C9_AppendOnly ==
    [][/\ \A p \in DOMAIN disk : p \in DOMAIN disk' /\ disk'[p] = disk[p]
       /\ dirs \subseteq dirs'
       /\ IF calls' # calls
          THEN /\ (DOMAIN disk') \ (DOMAIN disk) \subseteq {<<dl'.dir_name, dl'.tile_name>>}
               /\ dirs' \ dirs \subseteq {<<dl'.dir_name>>}
               /\ dl'.sw = calls'[Len(calls')].sw
          ELSE DOMAIN disk' = DOMAIN disk]_vars

C9_Witness ==
    /\ Cardinality(DOMAIN disk) >= 2
    /\ \E i \in 1 .. Len(calls) :
          calls[i].pre = "complete" /\ calls[i].post = "complete"
    /\ \E i \in 1 .. Len(calls) :
          calls[i].pre = "absent" /\ calls[i].post = "complete"

\* --------------------------------------------------------------------- C10
RECURSIVE AreaSum(_)
\* the sum of (xmax-xmin)*(ymax-ymin) over the polygons started in this run
AreaSum(n) ==
    IF n = 0 THEN 0
    ELSE LET b == RoundBounds(PolyBounds(PolygonOf(started[n].file)))
         IN  AreaSum(n - 1) + (b[3] - b[1]) * (b[4] - b[2])

\* C10: expected is the sum of the areas of the rounded boxes of the polygons
\* started in this run, total is the number of download_tile calls of this
\* run that returned, 0 <= total <= expected; a run over a directory without
\* .geojson entries does not fail and ends with both counters 0.
C10_Counters ==
    /\ expected = AreaSum(Len(started))
    /\ total = Cardinality({i \in RunCalls : ~calls[i].raised})
    /\ 0 <= total /\ total <= expected
    /\ (input_kind = "dir"
          /\ \A k \in 1 .. Len(listing) : listing[k].suffix # ".geojson") =>
              /\ pc # "crashed"
              /\ expected = 0 /\ total = 0
              /\ pc = "done" => "summary" \in log

C10_Witness ==
    /\ pc = "done"
    /\ Len(started) = 2
    /\ PolygonOf(started[1].file) = Ell
    /\ PolygonOf(started[2].file) = Ell
    /\ expected = 8
    /\ total = 6
    /\ Cardinality(DOMAIN disk) = 3

=============================================================================
